---- MODULE Spec2Model ----
(***************************************************************************)
(* Model of src/translate_api.py: the asynchronous translation job        *)
(* orchestrator.  One record per task in the global dictionary            *)
(* translation_tasks, one background thread per accepted task running     *)
(* process_translation_task, the three Flask route handlers, and the      *)
(* flat upload directory.                                                 *)
(*                                                                         *)
(* Granularity.  The worker thread and the request handlers share the     *)
(* task objects without any lock, so every attribute write of the worker  *)
(* is a separate step of the model.  Computations on thread-local values  *)
(* (the remote call, the branch taken on its answer) are fused with the   *)
(* single shared write that follows them.                                 *)
(*                                                                         *)
(* Time.  elapsed_time is a whole number of seconds drawn from            *)
(* ElapsedSamples, growing by at least the 2 s sleep from one poll to the *)
(* next; the largest sample stands for itself and every later moment.     *)
(* The float arithmetic of the progress formula is reproduced with exact  *)
(* integer arithmetic, which gives the same integers on these values.     *)
(*                                                                         *)
(* Environment.  The provider may refuse or break any of its three calls; *)
(* file.save and Thread.start may raise.  os.remove on a file the server  *)
(* wrote itself is taken to succeed.                                      *)
(*                                                                         *)
(* File names are sequences of one-character strings so that splitext,    *)
(* re.sub, strip and lower act on them character by character.            *)
(***************************************************************************)
EXTENDS Integers, Sequences, FiniteSets, TLC

VARIABLES translation_tasks, files, pc, i, elapsed_time, current_status, status_info,
          exc, calls, removed, response

vars == <<translation_tasks, files, pc, i, elapsed_time, current_status, status_info,
          exc, calls, removed, response>>

-----------------------------------------------------------------------------
(* Program constants of process_translation_task *)

max_wait_time == 3600

min_processing_time == 20

default_seconds_remaining == 120

sleep_between_polls == 2

-----------------------------------------------------------------------------
(* Values *)

None == "None"

(* dict.get on a missing key; no result_file; no response in flight *)
NoTask == [task_id |-> None]

NoPath == <<>>

NoResponse == [route |-> None]

(* no answer of check_document_status yet; an absent seconds_remaining is *)
(* the empty sequence, an absent message is None                          *)
NoStatusInfo == [seconds_remaining |-> <<>>, message |-> None]

TaskIds == {"1", "2"}

Letters == {"a", "d", "e", "l", "n", "o", "p", "r", "s", "t", "u", "x",
            "T", "X"}

Digits == {"1", "2"}

(* The characters the regular-expression class \w matches *)
WordChars == Letters \cup Digits \cup {"_"}

SpaceChars == {" "}

Min(a, b) == IF a < b THEN a ELSE b

Max(a, b) == IF a > b THEN a ELSE b

(* str.lower on one character, then on a string *)
LowerChar(c) == CASE c = "T" -> "t" [] c = "X" -> "x" [] OTHER -> c

Lower(s) == [k \in 1..Len(s) |-> LowerChar(s[k])]

(* Largest index of character c in s, 0 when absent (str.rfind + 1) *)
RFind(s, c) ==
    LET hits == {k \in 1..Len(s) : s[k] = c}
    IN  IF hits = {} THEN 0 ELSE CHOOSE k \in hits : \A m \in hits : m <= k

(* os.path.splitext: the extension starts at the last dot, provided that  *)
(* dot follows the last separator and some character between the         *)
(* separator and the dot is not itself a dot.                             *)
SplitAt(s) ==
    LET sepIndex == RFind(s, "/")
        dotIndex == RFind(s, ".")
    IN  IF dotIndex > sepIndex
           /\ \E k \in (sepIndex + 1)..(dotIndex - 1) : s[k] # "."
        THEN dotIndex
        ELSE Len(s) + 1

SplitextRoot(s) == SubSeq(s, 1, SplitAt(s) - 1)

SplitextExt(s) == SubSeq(s, SplitAt(s), Len(s))

(* re.sub(pattern, '_', s) for a pattern that matches every character     *)
(* outside the set keep                                                   *)
SubUnderscore(s, keep) ==
    [k \in 1..Len(s) |-> IF s[k] \in keep THEN s[k] ELSE "_"]

(* re.sub(pattern, '', s): drop every character outside keep *)
RECURSIVE SubEmpty(_, _)
SubEmpty(s, keep) ==
    IF s = <<>> THEN <<>>
    ELSE IF Head(s) \in keep THEN <<Head(s)>> \o SubEmpty(Tail(s), keep)
    ELSE SubEmpty(Tail(s), keep)

(* str.strip('_') *)
RECURSIVE LStrip(_)
LStrip(s) ==
    IF s # <<>> /\ Head(s) = "_" THEN LStrip(Tail(s)) ELSE s

RECURSIVE RStrip(_)
RStrip(s) ==
    IF s # <<>> /\ s[Len(s)] = "_" THEN RStrip(SubSeq(s, 1, Len(s) - 1)) ELSE s

Strip(s) == RStrip(LStrip(s))

(* s[:n] *)
Prefix(s, n) == SubSeq(s, 1, Min(n, Len(s)))

-----------------------------------------------------------------------------
(* Requests the model submits *)

NoFile == "NoFile"

SpacedName == <<"a", " ", ".", "T", "X", "T">>

ExeName == <<"a", ".", "e", "x", "e">>

(* request.files['file'].filename, or NoFile when the form has no file *)
Uploads == {NoFile, <<>>, ExeName, SpacedName}

TargetLangs == {<<"e", "n">>}

(* The allowed_extensions of translate_document_route that the alphabet   *)
(* of the model can spell                                                 *)
allowed_extensions == {<<".", "t", "x", "t">>}

(* Bytes of the documents: what the client uploaded for a task, what the  *)
(* provider returns for it, and a truncated stream                        *)
SourceBytes(j) == <<"source", j>>

TranslatedBytes(j) == <<"translated", j>>

PartialBytes(j) == <<"partial", j>>

-----------------------------------------------------------------------------
(* Paths inside UPLOAD_FOLDER *)

(* temp_filename of translate_document_route *)
TempFilename(task_id, original_filename) ==
    LET file_ext == Lower(SplitextExt(original_filename))
        safe_original_basename ==
            SubEmpty(SplitextRoot(original_filename),
                     WordChars \cup SpaceChars \cup {".", "-"})
    IN  <<"u", "p", "l", "o", "a", "d", "_">> \o <<task_id>> \o <<"_">>
            \o Prefix(safe_original_basename, 50) \o file_ext

(* output_filename of process_translation_task *)
OutputFilename(filename, target_lang) ==
    LET base_name == SplitextRoot(filename)
        ext == SplitextExt(filename)
        safe_base_name == Strip(SubUnderscore(base_name, WordChars \cup {"-"}))
    IN  safe_base_name
            \o <<"_", "t", "r", "a", "n", "s", "l", "a", "t", "e", "d", "_">>
            \o target_lang \o ext

(* os.path.exists, writing a file, os.remove on the upload directory *)
Exists(path) == \E f \in files : f.path = path

ReadFile(fs, path) == (CHOOSE f \in fs : f.path = path).bytes

RemoveFile(fs, path) == {f \in fs : f.path # path}

WriteFile(fs, path, bytes) ==
    RemoveFile(fs, path) \cup {[path |-> path, bytes |-> bytes]}

-----------------------------------------------------------------------------
(* TranslationTask.__init__ ; created_at is immutable and left out *)
TranslationTask(task_id, filename, target_lang) ==
    [task_id |-> task_id, filename |-> filename, target_lang |-> target_lang,
     status |-> "pending", progress |-> 0, result_file |-> NoPath,
     error |-> None]

Init ==
    /\ translation_tasks = [j \in TaskIds |-> NoTask]
    /\ files = {}
    /\ pc = [j \in TaskIds |-> "unused"]
    /\ i = [j \in TaskIds |-> 0]
    /\ elapsed_time = [j \in TaskIds |-> -1]
    /\ current_status = [j \in TaskIds |-> None]
    /\ status_info = [j \in TaskIds |-> NoStatusInfo]
    /\ exc = [j \in TaskIds |-> None]
    /\ calls = [j \in TaskIds |-> {}]
    /\ removed = [j \in TaskIds |-> 0]
    /\ response = NoResponse

(* The path the handler saved the upload under and passed to the thread *)
uploaded_file_path(j) ==
    TempFilename(j, translation_tasks[j].filename)

(* cleanup_file: os.remove when the path exists *)
cleanup_file(j) ==
    IF Exists(uploaded_file_path(j))
    THEN /\ files' = RemoveFile(files, uploaded_file_path(j))
         /\ removed' = [removed EXCEPT ![j] = @ + 1]
    ELSE UNCHANGED <<files, removed>>

-----------------------------------------------------------------------------
(* POST /translate *)

(* The validation without the test of the extension (lines 272-279) *)
Invalid_ExtensionUnchecked(upload) ==
    \/ upload = NoFile
    \/ upload = <<>>

(* Lines 260-279: no file part, empty file name, extension not allowed *)
Invalid(upload) ==
    \/ upload = NoFile
    \/ upload = <<>>
    \/ Lower(SplitextExt(upload)) \notin allowed_extensions

(* uuid.uuid4(): an identifier no task has used; identifiers are handed   *)
(* out in the order of IdRank                                             *)
IdRank == ("1" :> 1) @@ ("2" :> 2)

FreshId(j) ==
    /\ pc[j] = "unused"
    /\ \A k \in TaskIds : pc[k] = "unused" => IdRank[k] >= IdRank[j]

(* Lines 260-286: validation, then the task is stored in the dictionary *)
translate_document_route(upload, target_lang) ==
    IF Invalid(upload)
    THEN /\ response' = [route |-> "translate", code |-> 400]
         /\ UNCHANGED <<translation_tasks, files, pc, i, elapsed_time,
                        current_status, status_info, exc, calls, removed>>
    ELSE \E j \in TaskIds :
         /\ FreshId(j)
         /\ translation_tasks' =
                [translation_tasks EXCEPT
                    ![j] = TranslationTask(j, upload, target_lang)]
         /\ pc' = [pc EXCEPT ![j] = "file_save"]
         /\ response' = NoResponse
         /\ UNCHANGED <<files, i, elapsed_time, current_status, status_info, exc, calls,
                        removed>>

(* Line 293: file.save; the write may fail before or after the file is    *)
(* created                                                                *)
file_save(j, outcome) ==
    /\ pc[j] = "file_save"
    /\ \/ /\ outcome = "saved"
          /\ files' = WriteFile(files, uploaded_file_path(j), SourceBytes(j))
          /\ pc' = [pc EXCEPT ![j] = "thread_start"]
          /\ UNCHANGED exc
       \/ /\ outcome = "not created"
          /\ pc' = [pc EXCEPT ![j] = "route_status"]
          /\ exc' = [exc EXCEPT ![j] = "save failed"]
          /\ UNCHANGED files
       \/ /\ outcome = "truncated"
          /\ files' = WriteFile(files, uploaded_file_path(j), PartialBytes(j))
          /\ pc' = [pc EXCEPT ![j] = "route_status"]
          /\ exc' = [exc EXCEPT ![j] = "save failed"]
    /\ response' = NoResponse
    /\ UNCHANGED <<translation_tasks, i, elapsed_time, current_status, status_info, calls,
                   removed>>

(* Lines 296-308: the thread is started and 202 is returned, or           *)
(* Thread.start raises                                                    *)
thread_start(j, started) ==
    /\ pc[j] = "thread_start"
    /\ IF started
       THEN /\ pc' = [pc EXCEPT ![j] = "start"]
            /\ response' = [route |-> "translate", code |-> 202, task_id |-> j]
            /\ UNCHANGED exc
       ELSE /\ pc' = [pc EXCEPT ![j] = "route_status"]
            /\ exc' = [exc EXCEPT ![j] = "thread failed"]
            /\ response' = NoResponse
    /\ UNCHANGED <<translation_tasks, files, i, elapsed_time, current_status, status_info,
                   calls, removed>>

(* Line 312 *)
route_status(j) ==
    /\ pc[j] = "route_status"
    /\ translation_tasks' = [translation_tasks EXCEPT ![j].status = "error"]
    /\ pc' = [pc EXCEPT ![j] = "route_error"]
    /\ response' = NoResponse
    /\ UNCHANGED <<files, i, elapsed_time, current_status, status_info, exc, calls, removed>>

(* Line 313 *)
route_error(j) ==
    /\ pc[j] = "route_error"
    /\ translation_tasks' = [translation_tasks EXCEPT ![j].error = exc[j]]
    /\ pc' = [pc EXCEPT ![j] = "route_cleanup"]
    /\ response' = NoResponse
    /\ UNCHANGED <<files, i, elapsed_time, current_status, status_info, exc, calls, removed>>

(* Lines 314-318 *)
route_cleanup(j) ==
    /\ pc[j] = "route_cleanup"
    /\ cleanup_file(j)
    /\ pc' = [pc EXCEPT ![j] = "refused"]
    /\ response' = [route |-> "translate", code |-> 500]
    /\ UNCHANGED <<translation_tasks, i, elapsed_time, current_status, status_info, exc,
                   calls>>

-----------------------------------------------------------------------------
(* The provider, as process_translation_task sees it *)

(* elapsed_time at the moment a poll answer is handled, in seconds *)
ElapsedSamples == {18, 3601}

(* status_info.get('status', '') *)
RemoteStatuses == {"done", "error", "translating", "queued", "", "paused"}

(* status_info['seconds_remaining'] as a one-element sequence, empty when *)
(* the key is absent                                                      *)
Hints == {<<>>, <<0>>, <<1000000>>}

TimeoutMessage == "Tempo maximo de traducao excedido"

(* status_info.get('message') of an error answer, None when absent *)
RemoteMessages == {None, "quota exceeded"}

(* Lines 224-225: f"Erro na API DeepL: {error_msg}" with the default text *)
(* for an absent message                                                  *)
RemoteErrorMessage(message) ==
    IF message = None
    THEN "Erro na API DeepL: Erro desconhecido na traducao"
    ELSE IF message = "quota exceeded"
         THEN "Erro na API DeepL: quota exceeded"
         ELSE "Erro na API DeepL: ?"

(* Line 244: f"Status desconhecido: {current_status}" *)
UnknownStatusMessage(status) ==
    IF status = ""
    THEN "Status desconhecido: "
    ELSE IF status = "paused"
         THEN "Status desconhecido: paused"
         ELSE "Status desconhecido: ?"

(* The estimate dividing by elapsed + remaining alone *)
EstimateProgress_SumOnly(elapsed, seconds_remaining) ==
    Min(90, Max(20, 20 + (70 * elapsed) \div (elapsed + seconds_remaining)))

(* Lines 233-236: int(min(90, max(20, 20 + (elapsed/max(elapsed+remaining,  *)
(* min_processing_time)) * 70)))                                           *)
EstimateProgress(elapsed, seconds_remaining) ==
    Min(90, Max(20, 20 + (70 * elapsed)
                      \div Max(elapsed + seconds_remaining, min_processing_time)))

(* Lines 191-192: int((90 - progress) * (remaining_time / min_processing_time)) *)
RampSteps(progress, elapsed) ==
    ((90 - progress) * (min_processing_time - elapsed)) \div min_processing_time

-----------------------------------------------------------------------------
(* process_translation_task, one action per step of the thread *)

RunnerFrame == <<files, elapsed_time, current_status, status_info, calls, removed>>

Goto(j, label) == pc' = [pc EXCEPT ![j] = label]

(* The progress kept in one place for all tasks instead of per task *)
SetProgress_EveryTask(j, value) ==
    translation_tasks' =
        [k \in TaskIds |->
            IF translation_tasks[k] = NoTask
            THEN NoTask
            ELSE [translation_tasks[k] EXCEPT !.progress = value]]

SetProgress(j, value) ==
    translation_tasks' = [translation_tasks EXCEPT ![j].progress = value]

Raise(j, message) ==
    /\ exc' = [exc EXCEPT ![j] = message]
    /\ Goto(j, "except_status")

(* Lines 150-157 *)
start(j) ==
    /\ pc[j] = "start"
    /\ IF translation_tasks[j] = NoTask
       THEN /\ cleanup_file(j)
            /\ Goto(j, "finished")
            /\ UNCHANGED translation_tasks
       ELSE /\ translation_tasks' =
                   [translation_tasks EXCEPT ![j].status = "processing"]
            /\ Goto(j, "reset_progress")
            /\ UNCHANGED <<files, removed>>
    /\ response' = NoResponse
    /\ UNCHANGED <<i, elapsed_time, current_status, status_info, exc, calls>>

(* Line 158 *)
reset_progress(j) ==
    /\ pc[j] = "reset_progress"
    /\ SetProgress(j, 0)
    /\ Goto(j, "pre_ramp")
    /\ i' = [i EXCEPT ![j] = 1]
    /\ response' = NoResponse
    /\ UNCHANGED <<RunnerFrame, exc>>

(* Lines 162-164: for i in range(1, 11) *)
pre_ramp(j) ==
    /\ pc[j] = "pre_ramp"
    /\ SetProgress(j, i[j])
    /\ IF i[j] < 10
       THEN /\ i' = [i EXCEPT ![j] = @ + 1]
            /\ UNCHANGED pc
       ELSE /\ i' = [i EXCEPT ![j] = 0]
            /\ Goto(j, "upload")
    /\ response' = NoResponse
    /\ UNCHANGED <<RunnerFrame, exc>>

(* Lines 167-171: upload_document_to_deepl reads the saved file and posts *)
(* it; any failure is re-raised                                           *)
upload_document_to_deepl(j, accepted) ==
    /\ pc[j] = "upload"
    /\ calls' = [calls EXCEPT ![j] = @ \cup {"Submit"}]
    /\ IF accepted /\ Exists(uploaded_file_path(j))
       THEN /\ Goto(j, "post_ramp")
            /\ i' = [i EXCEPT ![j] = 11]
            /\ UNCHANGED exc
       ELSE /\ Raise(j, "submit failed")
            /\ UNCHANGED i
    /\ response' = NoResponse
    /\ UNCHANGED <<translation_tasks, files, elapsed_time, current_status, status_info,
                   removed>>

(* Lines 174-180: for i in range(11, 21), then start_time is taken *)
post_ramp(j) ==
    /\ pc[j] = "post_ramp"
    /\ SetProgress(j, i[j])
    /\ IF i[j] < 20
       THEN /\ i' = [i EXCEPT ![j] = @ + 1]
            /\ UNCHANGED pc
       ELSE /\ i' = [i EXCEPT ![j] = 0]
            /\ Goto(j, "poll")
    /\ response' = NoResponse
    /\ UNCHANGED <<RunnerFrame, exc>>

(* The limit taken for milliseconds *)
TimedOut_Milliseconds(elapsed) == elapsed > max_wait_time * 1000

(* Line 238 *)
TimedOut(elapsed) == elapsed > max_wait_time

(* Every state but done and error taken as still running *)
StillRunning_AnyOther(status) == status \notin {"done", "error"}

(* The branch of line 227 without 'queued' *)
StillRunning_TranslatingOnly(status) == status = "translating"

(* Line 227 *)
StillRunning(status) == status \in {"translating", "queued"}

(* The largest sample stands for that moment and every later one *)
LastSample == CHOOSE e \in ElapsedSamples : \A d \in ElapsedSamples : d <= e

(* The next moment a poll answer can be handled: any sample for the first *)
(* poll, later ones at least one sleep (line 241) after the previous      *)
(* answer                                                                 *)
CanElapse(j, elapsed) ==
    /\ elapsed \in ElapsedSamples
    /\ elapsed_time[j] >= 0 =>
           elapsed >= Min(elapsed_time[j] + sleep_between_polls, LastSample)

(* The lookup with 0 as the value of an absent seconds_remaining *)
SecondsRemaining_NoDefault(hint) ==
    IF hint = <<>> THEN 0 ELSE hint[1]

(* Line 229: status_info.get('seconds_remaining', 120) *)
SecondsRemaining(hint) ==
    IF hint = <<>> THEN default_seconds_remaining ELSE hint[1]

(* Lines 184-244, one iteration of the while loop up to its first write   *)
(* to the task: check_document_status answers (or raises), and the branch *)
(* on current_status is taken.  status_info keeps the seconds_remaining   *)
(* entry of the answer, current_status its status entry.                  *)
while_iteration(j, answered, status, elapsed, hint, message) ==
    /\ pc[j] = "poll"
    /\ calls' = [calls EXCEPT ![j] = @ \cup {"PollStatus"}]
    /\ response' = NoResponse
    /\ UNCHANGED <<files, removed>>
    /\ IF ~answered
       THEN /\ Raise(j, "poll failed")
            /\ UNCHANGED <<translation_tasks, i, elapsed_time, current_status, status_info>>
       ELSE
       /\ elapsed_time' = [elapsed_time EXCEPT ![j] = elapsed]
       /\ current_status' = [current_status EXCEPT ![j] = status]
       /\ status_info' = [status_info EXCEPT ![j] =
              [seconds_remaining |-> hint, message |-> message]]
       /\ CASE status = "done" ->
                LET steps == RampSteps(translation_tasks[j].progress, elapsed)
                IN  /\ IF elapsed < min_processing_time /\ steps > 0
                       THEN /\ Goto(j, "min_ramp")
                            /\ i' = [i EXCEPT ![j] = steps]
                       ELSE /\ Goto(j, "final_ramp")
                            /\ i' = [i EXCEPT ![j] = 91]
                    /\ UNCHANGED <<translation_tasks, exc>>
            [] status = "error" ->
                /\ Raise(j, RemoteErrorMessage(message))
                /\ UNCHANGED <<translation_tasks, i>>
            [] StillRunning(status) ->
                LET seconds_remaining == SecondsRemaining(hint)
                IN  /\ IF seconds_remaining > 0
                       THEN SetProgress(j,
                                EstimateProgress(elapsed, seconds_remaining))
                       ELSE UNCHANGED translation_tasks
                    /\ IF TimedOut(elapsed)
                       THEN Raise(j, TimeoutMessage)
                       ELSE UNCHANGED <<pc, exc>>
                    /\ UNCHANGED i
            [] OTHER ->
                /\ Raise(j, UnknownStatusMessage(status))
                /\ UNCHANGED <<translation_tasks, i>>

(* The loop as the server runs it: polls at the sampled moments; the      *)
(* provider reports seconds_remaining only while the document is queued   *)
(* or translating, and a message only with an error                       *)
poll(j, answered, status, elapsed, hint, message) ==
    /\ answered => CanElapse(j, elapsed)
    /\ status \notin {"translating", "queued"} => hint = <<>>
    /\ status # "error" => message = None
    /\ while_iteration(j, answered, status, elapsed, hint, message)

(* Lines 194-196: the cosmetic ramp toward 90 *)
min_ramp(j) ==
    /\ pc[j] = "min_ramp"
    /\ SetProgress(j, Min(90, translation_tasks[j].progress + 1))
    /\ IF i[j] > 1
       THEN /\ i' = [i EXCEPT ![j] = @ - 1]
            /\ UNCHANGED pc
       ELSE /\ i' = [i EXCEPT ![j] = 91]
            /\ Goto(j, "final_ramp")
    /\ response' = NoResponse
    /\ UNCHANGED <<RunnerFrame, exc>>

(* The ramp to 100 going on to the completion without the download *)
final_ramp_SkipFetch(j) ==
    /\ pc[j] = "final_ramp"
    /\ SetProgress(j, i[j])
    /\ IF i[j] < 100
       THEN /\ i' = [i EXCEPT ![j] = @ + 1]
            /\ UNCHANGED pc
       ELSE /\ i' = [i EXCEPT ![j] = 0]
            /\ Goto(j, "set_completed")
    /\ response' = NoResponse
    /\ UNCHANGED <<RunnerFrame, exc>>

(* Lines 211-213: for i in range(91, 101) *)
final_ramp(j) ==
    /\ pc[j] = "final_ramp"
    /\ SetProgress(j, i[j])
    /\ IF i[j] < 100
       THEN /\ i' = [i EXCEPT ![j] = @ + 1]
            /\ UNCHANGED pc
       ELSE /\ i' = [i EXCEPT ![j] = 0]
            /\ Goto(j, "fetch")
    /\ response' = NoResponse
    /\ UNCHANGED <<RunnerFrame, exc>>

(* Lines 199-208 *)
output_path(j) ==
    OutputFilename(translation_tasks[j].filename,
                   translation_tasks[j].target_lang)

(* Lines 215-219, download_translated_document: the provider refuses      *)
(* (raise_for_status), or the file is opened for writing and the stream   *)
(* is copied to it, completely or until it breaks                         *)
fetch(j, outcome) ==
    /\ pc[j] = "fetch"
    /\ calls' = [calls EXCEPT ![j] = @ \cup {"FetchResult"}]
    /\ \/ /\ outcome = "written"
          /\ files' = WriteFile(files, output_path(j), TranslatedBytes(j))
          /\ Goto(j, "set_result")
          /\ UNCHANGED exc
       \/ /\ outcome = "refused"
          /\ Raise(j, "fetch failed")
          /\ UNCHANGED files
       \/ /\ outcome = "truncated"
          /\ files' = WriteFile(files, output_path(j), PartialBytes(j))
          /\ Raise(j, "fetch failed")
    /\ response' = NoResponse
    /\ UNCHANGED <<translation_tasks, i, elapsed_time, current_status, status_info, removed>>

(* Line 215, the assignment of the returned path *)
set_result(j) ==
    /\ pc[j] = "set_result"
    /\ translation_tasks' =
           [translation_tasks EXCEPT ![j].result_file = output_path(j)]
    /\ Goto(j, "set_completed")
    /\ response' = NoResponse
    /\ UNCHANGED <<RunnerFrame, i, exc>>

(* Lines 220-221 *)
set_completed(j) ==
    /\ pc[j] = "set_completed"
    /\ translation_tasks' = [translation_tasks EXCEPT ![j].status = "completed"]
    /\ Goto(j, "finally")
    /\ response' = NoResponse
    /\ UNCHANGED <<RunnerFrame, i, exc>>

(* The handler of line 246 without its first assignment *)
except_status_Forgotten(j) ==
    /\ pc[j] = "except_status"
    /\ Goto(j, "except_error")
    /\ response' = NoResponse
    /\ UNCHANGED <<RunnerFrame, translation_tasks, i, exc>>

(* Line 248 *)
except_status(j) ==
    /\ pc[j] = "except_status"
    /\ translation_tasks' = [translation_tasks EXCEPT ![j].status = "error"]
    /\ Goto(j, "except_error")
    /\ response' = NoResponse
    /\ UNCHANGED <<RunnerFrame, i, exc>>

(* The handler of line 246 recording a fixed text instead of str(e) *)
except_error_Generic(j) ==
    /\ pc[j] = "except_error"
    /\ translation_tasks' = [translation_tasks EXCEPT ![j].error = "erro"]
    /\ Goto(j, "except_progress")
    /\ response' = NoResponse
    /\ UNCHANGED <<RunnerFrame, i, exc>>

(* Line 249 *)
except_error(j) ==
    /\ pc[j] = "except_error"
    /\ translation_tasks' = [translation_tasks EXCEPT ![j].error = exc[j]]
    /\ Goto(j, "except_progress")
    /\ response' = NoResponse
    /\ UNCHANGED <<RunnerFrame, i, exc>>

(* Line 250 *)
except_progress(j) ==
    /\ pc[j] = "except_progress"
    /\ SetProgress(j, 0)
    /\ Goto(j, "finally")
    /\ response' = NoResponse
    /\ UNCHANGED <<RunnerFrame, i, exc>>

(* The thread ending without the finally clause *)
finally_NoCleanup(j) ==
    /\ pc[j] = "finally"
    /\ Goto(j, "finished")
    /\ response' = NoResponse
    /\ UNCHANGED <<translation_tasks, files, removed, i, elapsed_time,
                   current_status, status_info, exc, calls>>

(* Lines 252-253 *)
finally(j) ==
    /\ pc[j] = "finally"
    /\ cleanup_file(j)
    /\ Goto(j, "finished")
    /\ response' = NoResponse
    /\ UNCHANGED <<translation_tasks, i, elapsed_time, current_status, status_info, exc,
                   calls>>

-----------------------------------------------------------------------------
(* GET /task/<task_id> : lines 321-353, the task read in one snapshot *)

(* The identifiers clients ask about; one not yet handed out is unknown *)
StatusRequests == TaskIds

(* A lookup under a key of another type than the one the task was stored *)
(* under (the UUID object instead of its string) never finds the task    *)
Lookup_KeyMismatch(task_id) ==
    IF task_id \in {} THEN translation_tasks[task_id] ELSE NoTask

(* translation_tasks.get(task_id) *)
Lookup(task_id) == translation_tasks[task_id]

(* Lines 333-351: the JSON answer about a task *)
StatusResponse(task_id) ==
    LET task == Lookup(task_id)
    IN  IF task = NoTask
        THEN [route |-> "task", code |-> 404]
        ELSE [route |-> "task", code |-> 200, task_id |-> task.task_id,
              status |-> task.status, progress |-> task.progress,
              download_url |->
                  IF task.status = "completed" /\ task.result_file # NoPath
                  THEN task.result_file ELSE NoPath,
              error_message |->
                  IF task.status = "error" THEN task.error ELSE None]

check_task_status_route(task_id) ==
    /\ response' = StatusResponse(task_id)
    /\ UNCHANGED <<translation_tasks, files, pc, i, elapsed_time,
                   current_status, status_info, exc, calls, removed>>

-----------------------------------------------------------------------------
(* GET /download/<filename> : lines 356-393 *)

DownloadRequests ==
    {OutputFilename(SpacedName, l) : l \in TargetLangs}
        \cup {<<".", ".">>}

HasDotDot(s) == \E k \in 1..(Len(s) - 1) : s[k] = "." /\ s[k + 1] = "."

StartsWithSeparator(s) == s # <<>> /\ s[1] \in {"/", "\\"}

(* Lines 361-381: the answer to a download of filename *)
DownloadResponse(filename) ==
    LET safe_filename == Strip(SubUnderscore(filename, WordChars \cup {"-", "."}))
    IN  IF HasDotDot(safe_filename) \/ StartsWithSeparator(safe_filename)
        THEN [route |-> "download", code |-> 400]
        ELSE IF Exists(safe_filename)
        THEN [route |-> "download", code |-> 200,
              download_name |-> filename,
              bytes |-> ReadFile(files, safe_filename)]
        ELSE [route |-> "download", code |-> 404]

download_file_route(filename) ==
    /\ response' = DownloadResponse(filename)
    /\ UNCHANGED <<translation_tasks, files, pc, i, elapsed_time,
                   current_status, status_info, exc, calls, removed>>

-----------------------------------------------------------------------------
Next ==
    \/ \E upload \in Uploads, target_lang \in TargetLangs :
            translate_document_route(upload, target_lang)
    \/ \E j \in TaskIds, outcome \in {"saved", "not created", "truncated"} :
            file_save(j, outcome)
    \/ \E j \in TaskIds, started \in BOOLEAN : thread_start(j, started)
    \/ \E j \in TaskIds : route_status(j)
    \/ \E j \in TaskIds : route_error(j)
    \/ \E j \in TaskIds : route_cleanup(j)
    \/ \E j \in TaskIds : start(j)
    \/ \E j \in TaskIds : reset_progress(j)
    \/ \E j \in TaskIds : pre_ramp(j)
    \/ \E j \in TaskIds, accepted \in BOOLEAN : upload_document_to_deepl(j, accepted)
    \/ \E j \in TaskIds : post_ramp(j)
    \/ \E j \in TaskIds, answered \in BOOLEAN, status \in RemoteStatuses,
          elapsed \in ElapsedSamples, hint \in Hints,
          message \in RemoteMessages :
            poll(j, answered, status, elapsed, hint, message)
    \/ \E j \in TaskIds : min_ramp(j)
    \/ \E j \in TaskIds : final_ramp(j)
    \/ \E j \in TaskIds, outcome \in {"written", "refused", "truncated"} :
            fetch(j, outcome)
    \/ \E j \in TaskIds : set_result(j)
    \/ \E j \in TaskIds : set_completed(j)
    \/ \E j \in TaskIds : except_status(j)
    \/ \E j \in TaskIds : except_error(j)
    \/ \E j \in TaskIds : except_progress(j)
    \/ \E j \in TaskIds : finally(j)
    \/ \E task_id \in StatusRequests : check_task_status_route(task_id)
    \/ \E filename \in DownloadRequests : download_file_route(filename)

Spec == Init /\ [][Next]_vars

(* The steps of the thread of task j; the operating system schedules      *)
(* every started thread again and again                                   *)
process_translation_task(j) ==
    \/ start(j)
    \/ reset_progress(j)
    \/ pre_ramp(j)
    \/ \E accepted \in BOOLEAN : upload_document_to_deepl(j, accepted)
    \/ post_ramp(j)
    \/ \E answered \in BOOLEAN, status \in RemoteStatuses,
          elapsed \in ElapsedSamples, hint \in Hints,
          message \in RemoteMessages :
            poll(j, answered, status, elapsed, hint, message)
    \/ min_ramp(j)
    \/ final_ramp(j)
    \/ \E outcome \in {"written", "refused", "truncated"} : fetch(j, outcome)
    \/ set_result(j)
    \/ set_completed(j)
    \/ except_status(j)
    \/ except_error(j)
    \/ except_progress(j)
    \/ finally(j)

(* The same server under the workload of a single accepted submission:    *)
(* every identifier but the first is withheld from uuid4                  *)
SoloInit ==
    /\ translation_tasks = [j \in TaskIds |-> NoTask]
    /\ files = {}
    /\ pc = [j \in TaskIds |-> IF IdRank[j] = 1 THEN "unused" ELSE "withheld"]
    /\ i = [j \in TaskIds |-> 0]
    /\ elapsed_time = [j \in TaskIds |-> -1]
    /\ current_status = [j \in TaskIds |-> None]
    /\ status_info = [j \in TaskIds |-> NoStatusInfo]
    /\ exc = [j \in TaskIds |-> None]
    /\ calls = [j \in TaskIds |-> {}]
    /\ removed = [j \in TaskIds |-> 0]
    /\ response = NoResponse

FairSpec ==
    /\ SoloInit
    /\ [][Next]_vars
    /\ \A j \in TaskIds : WF_vars(process_translation_task(j))

-----------------------------------------------------------------------------
(* Vocabulary of the properties *)

Created(j) == translation_tasks[j] # NoTask

Terminal(status) == status \in {"completed", "error"}

(* Positions of the thread inside process_translation_task *)
RunnerLabels ==
    {"start", "reset_progress", "pre_ramp", "upload", "post_ramp", "poll",
     "min_ramp", "final_ramp", "fetch", "set_result", "set_completed",
     "except_status", "except_error", "except_progress", "finally"}

-----------------------------------------------------------------------------
(* C1: for every task, a step taken while the task's status is not yet    *)
(* completed or error never lowers the task's progress.                   *)
C1_ProgressMonotonic ==
    [][\A j \in TaskIds :
          (Created(j) /\ ~Terminal(translation_tasks[j].status))
              => translation_tasks'[j].progress >= translation_tasks[j].progress
      ]_vars

(* C2: once a task's status is completed or error, no step changes its    *)
(* status or its progress.                                                *)
C2_TerminalFrozen ==
    [][\A j \in TaskIds :
          (Created(j) /\ Terminal(translation_tasks[j].status))
              => /\ translation_tasks'[j].status = translation_tasks[j].status
                 /\ translation_tasks'[j].progress = translation_tasks[j].progress
      ]_vars

-----------------------------------------------------------------------------
ExceptLabels == {"except_status", "except_error", "except_progress"}

(* The thread of task j ended after recording the time-out *)
TimedOutFailure(j) ==
    /\ pc[j] = "finished"
    /\ translation_tasks[j].status = "error"
    /\ translation_tasks[j].error = TimeoutMessage

(* A poll of task j was answered with something else than translating or *)
(* queued, or was not answered at all                                     *)
AnsweredOtherwise(j) ==
    \/ current_status[j] \in {"done", "error", "", "paused"}
    \/ exc[j] = "poll failed"

(* C3: a thread that is polling and only ever gets translating or queued  *)
(* answers eventually ends with the task in error with the time-out       *)
(* message, and a thread that has ended takes no further step.            *)
C3_TimeoutReached ==
    /\ \A j \in TaskIds :
          (pc[j] = "poll") ~> (TimedOutFailure(j) \/ AnsweredOtherwise(j))
    /\ [][\A j \in TaskIds : pc[j] = "finished" => pc'[j] = "finished"]_vars

C3_Witness ==
    \E j \in TaskIds :
        /\ Created(j)
        /\ TimedOutFailure(j)
        /\ elapsed_time[j] > max_wait_time
        /\ current_status[j] = "translating"

(* C4 as stated: a thread whose last poll answer was handled after the    *)
(* maximum wait ends with the task in error with the time-out message,    *)
(* whatever the answer was.                                               *)
C4_TimeoutWhateverState ==
    \A j \in TaskIds :
        (pc[j] = "finished" /\ elapsed_time[j] > max_wait_time)
            => /\ translation_tasks[j].status = "error"
               /\ translation_tasks[j].error = TimeoutMessage

(* C4 amended: a translating or queued answer handled after the maximum   *)
(* wait raises the time-out, which ends the thread with the task in error *)
(* with the time-out message; a task is completed only from a done        *)
(* answer.                                                                *)
C4_TimeoutWhenStillRunning ==
    \A j \in TaskIds :
        /\ (elapsed_time[j] > max_wait_time
                /\ current_status[j] \in {"translating", "queued"})
            => /\ exc[j] = TimeoutMessage
               /\ pc[j] \in ExceptLabels \cup {"finally", "finished"}
               /\ pc[j] \in {"finally", "finished"}
                     => /\ translation_tasks[j].status = "error"
                        /\ translation_tasks[j].error = TimeoutMessage
        /\ (Created(j) /\ translation_tasks[j].status = "completed")
            => current_status[j] = "done"

C4_Witness ==
    \E j \in TaskIds :
        /\ pc[j] = "finished"
        /\ elapsed_time[j] > max_wait_time
        /\ current_status[j] = "queued"
        /\ translation_tasks[j].error = TimeoutMessage

C6_NoPartialOutput ==
    \A j \in TaskIds :
        (Created(j) /\ exc[j] = "fetch failed")
            => /\ translation_tasks[j].status # "completed"
               /\ pc[j] = "finished" => translation_tasks[j].status = "error"
               /\ ~\E f \in files :
                      f.path = output_path(j) /\ f.bytes = PartialBytes(j)

(* C7: when the thread of a task has ended, the task is completed or in   *)
(* error; it is in error with the exception's message when an exception   *)
(* was raised, and completed otherwise.                                   *)
C7_EndsTerminal ==
    \A j \in TaskIds :
        pc[j] = "finished"
            => /\ translation_tasks[j].status \in {"completed", "error"}
               /\ exc[j] # None
                     => /\ translation_tasks[j].status = "error"
                        /\ translation_tasks[j].error = exc[j]
               /\ exc[j] = None => translation_tasks[j].status = "completed"

C7_Witness ==
    \E j \in TaskIds :
        /\ pc[j] = "finished"
        /\ exc[j] = UnknownStatusMessage("")
        /\ translation_tasks[j].status = "error"

(* C8: in every state, a task has a result_file exactly when its status   *)
(* is completed.                                                          *)
C8_ResultIffCompleted ==
    \A j \in TaskIds :
        Created(j)
            => (translation_tasks[j].result_file # NoPath
                    <=> translation_tasks[j].status = "completed")

(* C9: in every state, a task has an error text exactly when its status   *)
(* is error.                                                              *)
C9_ErrorIffFailed ==
    \A j \in TaskIds :
        Created(j)
            => (translation_tasks[j].error # None
                    <=> translation_tasks[j].status = "error")

-----------------------------------------------------------------------------
(* The phase of task j in the vocabulary of the life cycle: Pending until *)
(* line 157 sets processing; Submitting up to the end of the upload call; *)
(* Polling up to a done answer; Finalizing up to line 220; a thread that  *)
(* raised stays in the phase of the call that raised until line 247       *)
(* records the error.                                                     *)
Phase(j) ==
    IF ~Created(j) THEN "None"
    ELSE IF translation_tasks[j].status = "pending" THEN "Pending"
    ELSE IF translation_tasks[j].status = "completed" THEN "Completed"
    ELSE IF translation_tasks[j].status = "error" THEN "Failed"
    ELSE IF pc[j] \in {"reset_progress", "pre_ramp", "upload"}
         THEN "Submitting"
    ELSE IF pc[j] \in {"post_ramp", "poll"} THEN "Polling"
    ELSE IF pc[j] \in {"min_ramp", "final_ramp", "fetch", "set_result",
                       "set_completed"}
         THEN "Finalizing"
    ELSE IF "FetchResult" \in calls[j] THEN "Finalizing"
    ELSE IF "PollStatus" \in calls[j] THEN "Polling"
    ELSE "Submitting"

PhaseSteps ==
    {<<"None", "Pending">>, <<"Pending", "Submitting">>,
     <<"Submitting", "Polling">>, <<"Polling", "Finalizing">>,
     <<"Finalizing", "Completed">>}
    \cup {<<p, "Failed">> :
              p \in {"Pending", "Submitting", "Polling", "Finalizing"}}

(* C11: every step keeps each task in its phase or moves it one phase     *)
(* forward in the order Pending, Submitting, Polling, Finalizing,         *)
(* Completed, or from a phase that is not terminal to Failed; the         *)
(* provider calls of a task are made in the order Submit, PollStatus,     *)
(* FetchResult, the last one only after a done answer; and a task is      *)
(* Completed only with all three calls made, a done answer and the        *)
(* fetched file assigned.                                                 *)
C11_PhaseOrder ==
    [][\A j \in TaskIds :
          /\ Phase(j)' = Phase(j) \/ <<Phase(j), Phase(j)'>> \in PhaseSteps
          /\ calls'[j] # calls[j]
                => \/ calls[j] = {} /\ calls'[j] = {"Submit"}
                   \/ /\ calls[j] \in {{"Submit"}, {"Submit", "PollStatus"}}
                      /\ calls'[j] = {"Submit", "PollStatus"}
                   \/ /\ calls[j] = {"Submit", "PollStatus"}
                      /\ current_status[j] = "done"
                      /\ calls'[j] = {"Submit", "PollStatus", "FetchResult"}
          /\ Phase(j)' = "Completed"
                => /\ calls'[j] = {"Submit", "PollStatus", "FetchResult"}
                   /\ current_status'[j] = "done"
                   /\ translation_tasks'[j].result_file # NoPath
                   /\ exc'[j] = None
      ]_vars

C11_Witness ==
    \E j \in TaskIds :
        /\ pc[j] = "finished"
        /\ translation_tasks[j].status = "completed"
        /\ calls[j] = {"Submit", "PollStatus", "FetchResult"}

-----------------------------------------------------------------------------
(* C12: in every state, a task whose progress is 100 has status completed *)
(* and its translated file, complete, assigned and stored under its       *)
(* output name.                                                           *)
C12_HundredMeansCompleted ==
    \A j \in TaskIds :
        (Created(j) /\ translation_tasks[j].progress = 100)
            => /\ translation_tasks[j].status = "completed"
               /\ translation_tasks[j].result_file = output_path(j)
               /\ Exists(output_path(j))

-----------------------------------------------------------------------------
(* C13: in every state, for every task with status completed, a download  *)
(* of the file named by the download_url of its status answer is served   *)
(* with exactly the bytes FetchResult returned for that task, under the   *)
(* output name made of the task's file name and target language.          *)
C13_DownloadRoundTrip ==
    \A j \in TaskIds :
        (Created(j) /\ translation_tasks[j].status = "completed")
            => LET url == StatusResponse(j).download_url
                   served == DownloadResponse(url)
               IN  /\ url = OutputFilename(translation_tasks[j].filename,
                                           translation_tasks[j].target_lang)
                   /\ served.code = 200
                   /\ served.bytes = TranslatedBytes(j)

-----------------------------------------------------------------------------
(* The handler of POST /translate-document has answered 202 for task j *)
Answered202(j) == pc[j] \in RunnerLabels \cup {"finished"}

(* C14: in every state, a task id that was returned with a 202 answer is  *)
(* found by the status route, which answers 200 with that id and one of   *)
(* the statuses pending, processing, completed, error; and the 202        *)
(* answer itself carries an id the status route finds.                    *)
C14_AcceptedIsFound ==
    /\ \A j \in TaskIds :
          Answered202(j)
              => /\ StatusResponse(j).code = 200
                 /\ StatusResponse(j).task_id = j
                 /\ StatusResponse(j).status
                        \in {"pending", "processing", "completed", "error"}
    /\ (response.route = "translate" /\ response.code = 202)
          => /\ Answered202(response.task_id)
             /\ StatusResponse(response.task_id).code = 200

C14_Witness ==
    \E j \in TaskIds :
        /\ Answered202(j)
        /\ response.route = "task"
        /\ response.code = 200
        /\ response.task_id = j
        /\ response.status = "pending"

-----------------------------------------------------------------------------
(* C15: a step that answers a submission with 400 changes nothing but the *)
(* answer: no task record, no thread, no file; and every task record was  *)
(* created from a submission that has a file, a non-empty file name and   *)
(* an allowed extension, so that a submission failing the validation can  *)
(* only have been answered 400.                                           *)
C15_RejectedLeavesNoTrace ==
    [][/\ (response'.route = "translate" /\ response'.code = 400)
             => UNCHANGED <<translation_tasks, files, pc, i, elapsed_time,
                            current_status, status_info, exc, calls, removed>>
       /\ \A j \in TaskIds :
             (translation_tasks[j] = NoTask /\ translation_tasks'[j] # NoTask)
                 => /\ translation_tasks'[j].filename # <<>>
                    /\ Lower(SplitextExt(translation_tasks'[j].filename))
                           \in allowed_extensions
      ]_vars

C15_Witness ==
    /\ response.route = "translate"
    /\ response.code = 400
    /\ \E j \in TaskIds : pc[j] = "poll"
    /\ files # {}

-----------------------------------------------------------------------------
(* The thread of task j has been started *)
Launched(j) == pc[j] \in RunnerLabels \cup {"finished"}

(* C16: a step changes at most one task record; a record that exists is   *)
(* changed only by a step of its own thread (the task's thread is at a    *)
(* label of process_translation_task, no other task moves and no handler  *)
(* answers in that step), or, when no thread was started for it, by the   *)
(* failure path of the handler that created it; a thread is started for   *)
(* a task only by the handler that accepted it, once, and a task whose    *)
(* thread was started never goes back to the handler.                     *)
C16_OnlyOwnRunnerWrites ==
    [][\A j \in TaskIds :
          /\ (Created(j) /\ translation_tasks'[j] # translation_tasks[j])
                => /\ \/ /\ pc[j] \in RunnerLabels
                         /\ response' = NoResponse
                      \/ pc[j] \in {"route_status", "route_error"}
                   /\ \A k \in TaskIds \ {j} :
                         /\ translation_tasks'[k] = translation_tasks[k]
                         /\ pc'[k] = pc[k]
          /\ (~Launched(j) /\ Launched(j)')
                => /\ pc[j] = "thread_start"
                   /\ pc'[j] = "start"
                   /\ response' = [route |-> "translate", code |-> 202,
                                   task_id |-> j]
          /\ Launched(j) => Launched(j)'
      ]_vars

C16_Witness ==
    \E j, k \in TaskIds :
        /\ j # k
        /\ pc[j] = "poll"
        /\ translation_tasks[j].progress > 20
        /\ pc[k] = "fetch"

-----------------------------------------------------------------------------
(* C17: in every state, two tasks with different ids have different       *)
(* upload paths and different translated-output paths.                    *)
C17_DistinctPaths ==
    \A j, k \in TaskIds :
        (j # k /\ Created(j) /\ Created(k))
            => /\ uploaded_file_path(j) # uploaded_file_path(k)
               /\ output_path(j) # output_path(k)

-----------------------------------------------------------------------------
(* The progress estimate of lines 227-236 on its own: one thread that has *)
(* entered the while loop (upload accepted, progress ramped to 20), and   *)
(* answers translating or queued with a positive seconds_remaining at     *)
(* every whole second up to MaxElapsed.                                   *)

MaxElapsed == 24

MaxEta == 8

EstimateInit ==
    /\ translation_tasks =
           [j \in TaskIds |->
               IF IdRank[j] = 1
               THEN [TranslationTask(j, SpacedName, <<"e", "n">>)
                        EXCEPT !.status = "processing", !.progress = 20]
               ELSE NoTask]
    /\ files = {[path |-> TempFilename(j, SpacedName), bytes |-> SourceBytes(j)] :
                   j \in {k \in TaskIds : IdRank[k] = 1}}
    /\ pc = [j \in TaskIds |-> IF IdRank[j] = 1 THEN "poll" ELSE "withheld"]
    /\ i = [j \in TaskIds |-> 0]
    /\ elapsed_time = [j \in TaskIds |-> -1]
    /\ current_status = [j \in TaskIds |-> None]
    /\ status_info = [j \in TaskIds |-> NoStatusInfo]
    /\ exc = [j \in TaskIds |-> None]
    /\ calls = [j \in TaskIds |-> IF IdRank[j] = 1 THEN {"Submit"} ELSE {}]
    /\ removed = [j \in TaskIds |-> 0]
    /\ response = NoResponse

EstimateNext ==
    \E j \in TaskIds, status \in {"translating", "queued"},
       elapsed \in 0..MaxElapsed, eta \in 1..MaxEta :
        /\ elapsed_time[j] >= 0 => elapsed >= elapsed_time[j] + sleep_between_polls
        /\ while_iteration(j, TRUE, status, elapsed, <<eta>>, None)

EstimateSpec == EstimateInit /\ [][EstimateNext]_vars

(* The last answer handled for task j: translating or queued with a      *)
(* positive seconds_remaining, and the thread still in the loop          *)
EstimatedFromHint(j) ==
    /\ pc[j] = "poll"
    /\ current_status[j] \in {"translating", "queued"}
    /\ status_info[j].seconds_remaining # <<>>
    /\ status_info[j].seconds_remaining[1] > 0

(* C18 as stated: after a translating or queued answer with a positive    *)
(* seconds_remaining handled at elapsed second e, the progress is the     *)
(* integer part of 20 + 70 * e / (e + seconds_remaining), kept within     *)
(* 20 and 90.                                                             *)
C18_EstimateBySum ==
    \A j \in TaskIds :
        EstimatedFromHint(j)
            => LET e == elapsed_time[j]
                   eta == status_info[j].seconds_remaining[1]
               IN  translation_tasks[j].progress
                       = Min(90, Max(20, 20 + (70 * e) \div (e + eta)))

(* C18, amended: after such an answer the progress is the integer part of *)
(* 20 + 70 * e / max(e + seconds_remaining, 20), kept within 20 and 90,   *)
(* and so lies between 20 and 90.                                         *)
C18_EstimateByFlooredSum ==
    \A j \in TaskIds :
        EstimatedFromHint(j)
            => LET e == elapsed_time[j]
                   eta == status_info[j].seconds_remaining[1]
                   sum == IF e + eta > 20 THEN e + eta ELSE 20
               IN  /\ translation_tasks[j].progress
                          = Min(90, Max(20, 20 + (70 * e) \div sum))
                   /\ translation_tasks[j].progress >= 20
                   /\ translation_tasks[j].progress <= 90

C18_Witness ==
    \E j \in TaskIds :
        /\ EstimatedFromHint(j)
        /\ elapsed_time[j] = 18
        /\ status_info[j].seconds_remaining = <<1>>
        /\ translation_tasks[j].progress = 83

-----------------------------------------------------------------------------
(* The step handles an answer of check_document_status for task j that    *)
(* says translating or queued                                             *)
StillRunningAnswer(j) ==
    /\ pc[j] = "poll"
    /\ elapsed_time'[j] # elapsed_time[j]
    /\ current_status'[j] \in {"translating", "queued"}

(* C19 as stated: a step that handles a translating or queued answer      *)
(* without seconds_remaining leaves the progress of the task unchanged.   *)
C19_NoHintKeepsProgress ==
    [][\A j \in TaskIds :
          (StillRunningAnswer(j) /\ status_info'[j].seconds_remaining = <<>>)
              => translation_tasks'[j].progress = translation_tasks[j].progress
      ]_vars

(* C19, amended: a step that handles a translating or queued answer       *)
(* without seconds_remaining sets the progress to the estimate for 120    *)
(* remaining seconds, the integer part of 20 + 70 * e / (e + 120); a      *)
(* step that handles such an answer with seconds_remaining 0 leaves the   *)
(* progress unchanged.                                                    *)
C19_NoHintAssumesTwoMinutes ==
    [][\A j \in TaskIds :
          /\ (StillRunningAnswer(j) /\ status_info'[j].seconds_remaining = <<>>)
                => translation_tasks'[j].progress
                       = 20 + (70 * elapsed_time'[j]) \div (elapsed_time'[j] + 120)
          /\ (StillRunningAnswer(j) /\ status_info'[j].seconds_remaining = <<0>>)
                => translation_tasks'[j].progress = translation_tasks[j].progress
      ]_vars

C19_Witness ==
    \E j \in TaskIds :
        /\ pc[j] = "poll"
        /\ current_status[j] = "queued"
        /\ status_info[j].seconds_remaining = <<>>
        /\ elapsed_time[j] = 18
        /\ translation_tasks[j].progress = 29

-----------------------------------------------------------------------------
(* The last answer handled for task j named a state other than done,      *)
(* translating and queued                                                 *)
EndingAnswer(j) ==
    current_status[j] \notin {None, "done", "translating", "queued"}

(* Line 225 for an error answer, line 244 for any other state *)
EndingReason(j) ==
    IF current_status[j] = "error"
    THEN RemoteErrorMessage(status_info[j].message)
    ELSE UnknownStatusMessage(current_status[j])

(* C20: once an answer with a state other than done, translating or       *)
(* queued was handled for a task, its thread is past the loop on the      *)
(* failure path with the reason of that answer (the provider's message    *)
(* for error, the name of the state otherwise), makes no further          *)
(* provider call and never calls FetchResult, and ends with status error  *)
(* and that reason; a thread is back at the head of the loop only after   *)
(* a translating or queued answer.                                        *)
C20_OtherStateFails ==
    /\ [](\A j \in TaskIds :
            /\ pc[j] = "poll"
                  => current_status[j] \in {None, "translating", "queued"}
            /\ EndingAnswer(j)
                  => /\ pc[j] \in ExceptLabels \cup {"finally", "finished"}
                     /\ exc[j] = EndingReason(j)
                     /\ "FetchResult" \notin calls[j]
                     /\ translation_tasks[j].status \in {"processing", "error"}
                     /\ pc[j] \in {"except_progress", "finally", "finished"}
                           => /\ translation_tasks[j].status = "error"
                              /\ translation_tasks[j].error = EndingReason(j))
    /\ [][\A j \in TaskIds : EndingAnswer(j) => calls'[j] = calls[j]]_vars

C20_Witness ==
    \E j, k \in TaskIds :
        /\ pc[j] = "finished"
        /\ current_status[j] = "error"
        /\ translation_tasks[j].error = "Erro na API DeepL: quota exceeded"
        /\ pc[k] = "finished"
        /\ current_status[k] = "paused"
        /\ translation_tasks[k].error = "Status desconhecido: paused"

====
